---- MODULE Spec2Model ----
(***************************************************************************)
(* rpwavgen (Repeater WAV Generator): the pipeline of src/rpwavgen.py.     *)
(* main() dispatches on the parsed arguments to one of generate_wav,       *)
(* validate_wav or convert_to_wav.  The model keeps the file system the    *)
(* program reads and writes, the speech synthesizer it drives and the      *)
(* position of the program in main / generate_wav / text_to_speech.        *)
(*                                                                         *)
(* Path strings are sequences of components: <<"Speech.wav">> is the       *)
(* relative string 'Speech.wav' and <<"out", "Speech.wav">> is             *)
(* 'out/Speech.wav'.  Rationals (Python floats that come from a division)  *)
(* are pairs <<numerator, denominator>>.                                   *)
(***************************************************************************)
EXTENDS Integers, Sequences, FiniteSets, TLC

VARIABLES
    pargs,       \* the namespace parse_args() returned
    voices,      \* what list_voices() returns on this machine
    fs,          \* the file system: file -> content
    fs0,         \* the file system as it was when main() started
    wav_format,  \* the format dictionary validate_wav compares against
    pc,          \* the statement the program is at
    workflow,    \* the branch main() took
    speech,      \* the NSSpeechSynthesizer text_to_speech created
    isSpeaking,  \* the synthesizer's isSpeaking() flag
    sound,       \* convert_to_wav's AudioSegment read from input_file
    valid,       \* what the last validate_wav call returned and printed
    error,       \* the exception that ended the program, if any
    trace        \* the calls made so far, with the path each was given

vars == <<pargs, voices, fs, fs0, wav_format, pc, workflow, speech,
          isSpeaking, sound, valid, error, trace>>

----------------------------------------------------------------------------
(* Module-level names of rpwavgen.py *)

FILE_NAME == <<"Speech.wav">>

WAV_FORMAT ==
    [max_length |-> 10, sampling_rate |-> 16, bit_rate |-> 16,
     channel |-> 1, modulation |-> "PCM"]

NARRATOR == "Allison"

RATE == 175

temp_speech == <<"temp_speech.aiff">>

----------------------------------------------------------------------------
(* Bounds of the model *)

\* audio files last 0 s or between max_length - 1 and MaxSeconds seconds
MaxSeconds == 11

Seconds == {0} \cup {s \in 0..MaxSeconds : s >= WAV_FORMAT.max_length - 1}

FrameRates == {8000, 16000, 44100}

SampleWidths == {1, 2}

ChannelCounts == {1, 2}

CompTypes == {"NONE", "ULAW"}

Dirs == {".", "out"}

Names == {"Speech.wav", "temp_speech.aiff", "in.wav"}

AllVoices == {NARRATOR, "Samantha"}

\* gains are in hundredths: 1 is 0.01 and 100 is 1.0
Gains == {1, 100}

Rates == {RATE, 299}

----------------------------------------------------------------------------
(* Files and paths *)

\* Python's None, for the variables that hold a record
None == [none |-> TRUE]

\* a path that names no file, for a missing file
NoFile == [absent |-> TRUE]

Files == Dirs \X Names

\* the file a path string names: a relative name is looked up in the
\* current directory, which is "."
File(path) == IF Len(path) = 1 THEN <<".", path[1]>> ELSE path

\* f"{dir}/{name}"
Join(dir, name) == <<dir>> \o name

\* a whole number of seconds, or one frame more
FrameCounts(rate) == {rate * s + e : s \in Seconds, e \in {0, 1}}

Audio ==
    UNION {[frames : FrameCounts(r), frame_rate : {r},
            sample_width : SampleWidths, channels : ChannelCounts,
            comptype : CompTypes] : r \in FrameRates}

\* what the synthesizer writes: uncompressed AIFF
SynthAudio == {a \in Audio : a.comptype = "NONE" /\ a.sample_width = 2}


----------------------------------------------------------------------------
(* validate_wav *)

\* an integer equals a rational
RatEq(n, q) == n * q[2] = q[1]

\* validate_wav_mod: True iff the header's compression type is 'NONE'
validate_wav_mod(file) == file.comptype = "NONE"

Report(message, actual, expected) ==
    [ok |-> FALSE, message |-> message, actual |-> actual, expected |-> expected]

\* validate_wav(file_name, wav_format) on a file whose content is `file`:
\* the value returned (ok) and the line printed (message [actual, expected])
validate_wav(file, format) ==
    LET bit_rate == format.bit_rate * 1000
        sampling_rate == <<format.sampling_rate, 8>>
        file_modulation == IF validate_wav_mod(file) THEN "PCM" ELSE "Not PCM"
    IN  IF file.frames > format.max_length * file.frame_rate
        THEN Report("File is too long",
                    <<file.frames, file.frame_rate>>, <<format.max_length, 1>>)
        ELSE IF file.frame_rate # bit_rate
        THEN Report("File has wrong bit rate",
                    <<file.frame_rate, 1>>, <<bit_rate, 1>>)
        ELSE IF ~RatEq(file.sample_width, sampling_rate)
        THEN Report("File has wrong sampling rate",
                    <<file.sample_width, 1>>, sampling_rate)
        ELSE IF file.channels # format.channel
        THEN Report("File has wrong channel count",
                    <<file.channels, 1>>, <<format.channel, 1>>)
        ELSE IF file_modulation # format.modulation
        THEN Report("File has wrong modulation type",
                    file_modulation, format.modulation)
        ELSE [ok |-> TRUE, message |-> "", actual |-> <<>>, expected |-> <<>>]

----------------------------------------------------------------------------
(* convert_to_wav *)

\* the defaults of convert_to_wav's parameters
convert_defaults ==
    [codec |-> "pcm_s16le", channels |-> 1, sample_width |-> 2,
     frame_rate |-> 16000]

\* AudioSegment.from_file: the decoded audio, without the container's tag
from_file(file) ==
    [frames |-> file.frames, frame_rate |-> file.frame_rate,
     sample_width |-> file.sample_width, channels |-> file.channels]

\* the number of frames the rate converter emits for n input frames: one for
\* the first frame, then one each time the output clock passes an input frame
RECURSIVE GCD(_, _)
GCD(a, b) == IF b = 0 THEN a ELSE GCD(b, a % b)

\* (the converter first divides both rates by their greatest common divisor)
Resampled(n, inrate, outrate) ==
    LET d == GCD(inrate, outrate) IN
    IF n = 0 THEN 0 ELSE ((n - 1) * (outrate \div d)) \div (inrate \div d) + 1

\* a conversion that leaves the frame rate of the input as it is
keep_frame_rate(seg, frame_rate) == seg

set_frame_rate(seg, frame_rate) ==
    IF frame_rate = seg.frame_rate THEN seg
    ELSE [seg EXCEPT !.frame_rate = frame_rate,
                     !.frames = Resampled(seg.frames, seg.frame_rate, frame_rate)]

set_sample_width(seg, sample_width) == [seg EXCEPT !.sample_width = sample_width]

set_channels(seg, channels) == [seg EXCEPT !.channels = channels]

\* sound.export(output_file, format="wav", codec=codec, ...): the encoder
\* named by codec decides the sample width of the file written
export(seg, codec) ==
    [frames |-> seg.frames, frame_rate |-> seg.frame_rate,
     sample_width |-> IF codec = "pcm_s16le" THEN 2 ELSE seg.sample_width,
     channels |-> seg.channels, comptype |-> "NONE"]

\* the content convert_to_wav writes to output_file for a decoded input
convert_to_wav(seg, p) ==
    export(set_channels(set_sample_width(set_frame_rate(seg, p.frame_rate),
                                         p.sample_width),
                        p.channels),
           p.codec)

----------------------------------------------------------------------------
(* parse_args *)

\* check_gain: the value is kept iff 0.01 <= value <= 1.0 (in hundredths)
check_gain(value) == 1 <= value /\ value <= 100

InputPaths == {<<"in.wav">>, <<"Speech.wav">>, <<"out", "Speech.wav">>}

\* the namespaces parse_args() can return when list_voices() is vs: -t and -i
\* exclude each other, and so do -c and -v; "" and <<>> stand for an option
\* that was not given; the narrator is one of the choices or the default
ParsedArgs(vs) ==
    {a \in [text : {"", "CQ"}, input : {<<>>} \cup InputPaths,
            convert : BOOLEAN, validate : BOOLEAN, output : Dirs,
            gain : Gains, rate : Rates, narrator : vs \cup {NARRATOR}] :
        /\ ~(a.text # "" /\ a.input # <<>>)
        /\ ~(a.convert /\ a.validate)
        /\ check_gain(a.gain)
        /\ a.rate \in 1..299}

----------------------------------------------------------------------------
(* main and generate_wav *)

\* the branch main() takes
main_branch(a) ==
    IF a.text # "" THEN "generate_wav"
    ELSE IF a.input # <<>> /\ a.validate THEN "validate_wav"
    ELSE IF a.input # <<>> /\ a.convert THEN "convert_to_wav"
    ELSE "invalid"

\* the first statement of each branch
Entry(branch) ==
    CASE branch = "generate_wav" -> "text_to_speech"
      [] branch = "validate_wav" -> "validate_wav"
      [] branch = "convert_to_wav" -> "convert_to_wav"
      [] OTHER -> "return"

\* a body that validates the output before it removes the temporary file
validate_then_remove(stmt) ==
    CASE stmt = "text_to_speech" -> "convert_to_wav"
      [] stmt = "convert_to_wav" -> "validate_wav"
      [] stmt = "validate_wav" -> "remove_file"
      [] stmt = "remove_file" -> "return"

\* the body of generate_wav: the statement that follows each call
generate_wav(stmt) ==
    CASE stmt = "text_to_speech" -> "convert_to_wav"
      [] stmt = "convert_to_wav" -> "remove_file"
      [] stmt = "remove_file" -> "validate_wav"
      [] stmt = "validate_wav" -> "return"

\* where the program goes when the call `stmt` returns
Continue(stmt) ==
    IF workflow = "generate_wav" THEN generate_wav(stmt) ELSE "return"

\* the arguments generate_wav gives text_to_speech; narrator is not passed
\* and takes the parameter's default
text_to_speech_args ==
    [output_file |-> temp_speech, narrator |-> NARRATOR,
     gain |-> pargs.gain, rate |-> pargs.rate]

\* the arguments of the convert_to_wav call, in generate_wav and in main
convert_to_wav_args ==
    [input_file |-> IF workflow = "generate_wav" THEN temp_speech ELSE pargs.input,
     output_file |-> Join(pargs.output, FILE_NAME)]

\* the argument of the remove_file call in generate_wav
remove_file_arg == Join(pargs.output, temp_speech)

\* the argument of the validate_wav call, in generate_wav and in main
validate_wav_arg ==
    IF workflow = "generate_wav" THEN Join(pargs.output, FILE_NAME) ELSE pargs.input

Call(op, path) == Append(trace, [op |-> op, path |-> path])

Raise(exc) == pc' = "raise" /\ error' = exc

----------------------------------------------------------------------------
(* The initial states *)

\* the files present when the program starts: the input file, if one is
\* named, holds some audio or is missing; nothing else is there
NoFiles == [x \in Files |-> NoFile]

InitialFs(a) ==
    IF a.input = <<>> THEN {NoFiles}
    ELSE {[NoFiles EXCEPT ![File(a.input)] = c] : c \in Audio \cup {NoFile}}

Start ==
    /\ pc = "main"
    /\ workflow = "none"
    /\ speech = None
    /\ isSpeaking = FALSE
    /\ sound = None
    /\ valid = None
    /\ error = "none"
    /\ trace = <<>>
    /\ fs0 = fs

Init ==
    /\ voices \in {AllVoices, {"Samantha"}}
    /\ pargs \in ParsedArgs(voices)
    /\ fs \in InitialFs(pargs)
    /\ wav_format = WAV_FORMAT
    /\ Start

----------------------------------------------------------------------------
(* The steps of the program *)

\* main(): parse_args() has returned; take the branch
Main ==
    /\ pc = "main"
    /\ workflow' = main_branch(pargs)
    /\ pc' = Entry(main_branch(pargs))
    /\ UNCHANGED <<pargs, voices, fs, fs0, wav_format, speech, isSpeaking,
                   sound, valid, error, trace>>

\* text_to_speech up to startSpeakingString_toURL_: the narrator is checked,
\* the synthesizer is created with it, volume and rate are set when they are
\* truthy (0 is a value never set), and speaking is started; whether it
\* started is not looked at
TextToSpeech ==
    /\ pc = "text_to_speech"
    /\ LET a == text_to_speech_args IN
        /\ trace' = Call("text_to_speech", a.output_file)
        /\ IF a.narrator \notin voices
           THEN /\ Raise("ValueError")
                /\ UNCHANGED <<speech, isSpeaking>>
           ELSE /\ speech' = [voice |-> a.narrator,
                              volume |-> IF a.gain # 0 THEN a.gain ELSE 0,
                              rate |-> IF a.rate # 0 THEN a.rate ELSE 0,
                              url |-> a.output_file]
                /\ isSpeaking' \in BOOLEAN
                /\ pc' = "isSpeaking"
                /\ UNCHANGED error
    /\ UNCHANGED <<pargs, voices, fs, fs0, wav_format, workflow, sound, valid>>

\* the synthesizer finishes: the audio is in the file at its URL
SpeechEnds ==
    /\ pc = "isSpeaking"
    /\ isSpeaking
    /\ \E a \in SynthAudio : fs' = [fs EXCEPT ![File(speech.url)] = a]
    /\ isSpeaking' = FALSE
    /\ UNCHANGED <<pargs, voices, fs0, wav_format, pc, workflow, speech,
                   sound, valid, error, trace>>

\* while speech.isSpeaking(): pass
PollSpeaking ==
    /\ pc = "isSpeaking"
    /\ isSpeaking
    /\ UNCHANGED vars

\* the loop ends, the synthesizer is released and text_to_speech returns
SpeechDone ==
    /\ pc = "isSpeaking"
    /\ ~isSpeaking
    /\ pc' = Continue("text_to_speech")
    /\ UNCHANGED <<pargs, voices, fs, fs0, wav_format, workflow, speech,
                   isSpeaking, sound, valid, error, trace>>

\* convert_to_wav(input_file, output_file): reading raises when the file is
\* missing or the back end cannot decode it
ConvertToWav ==
    /\ pc = "convert_to_wav"
    /\ LET a == convert_to_wav_args IN
        /\ trace' = Call("convert_to_wav", a.input_file)
        /\ IF fs[File(a.input_file)] = NoFile
           THEN /\ Raise("FileNotFoundError")
                /\ UNCHANGED <<fs, sound>>
           ELSE \/ /\ Raise("CouldntDecodeError")
                   /\ UNCHANGED <<fs, sound>>
                \/ /\ sound' = from_file(fs[File(a.input_file)])
                   /\ fs' = [fs EXCEPT ![File(a.output_file)] =
                                convert_to_wav(sound', convert_defaults)]
                   /\ pc' = Continue("convert_to_wav")
                   /\ UNCHANGED error
    /\ UNCHANGED <<pargs, voices, fs0, wav_format, workflow, speech,
                   isSpeaking, valid>>

\* remove_file(file_name): os.remove raises OSError for a missing file
RemoveFile ==
    /\ pc = "remove_file"
    /\ trace' = Call("remove_file", remove_file_arg)
    /\ IF fs[File(remove_file_arg)] = NoFile
       THEN /\ Raise("OSError")
            /\ UNCHANGED fs
       ELSE /\ fs' = [fs EXCEPT ![File(remove_file_arg)] = NoFile]
            /\ pc' = Continue("remove_file")
            /\ UNCHANGED error
    /\ UNCHANGED <<pargs, voices, fs0, wav_format, workflow, speech,
                   isSpeaking, sound, valid>>

\* validate_wav(file_name): the value returned is dropped by the caller
ValidateWav ==
    /\ pc = "validate_wav"
    /\ trace' = Call("validate_wav", validate_wav_arg)
    /\ IF fs[File(validate_wav_arg)] = NoFile
       THEN /\ Raise("FileNotFoundError")
            /\ UNCHANGED valid
       ELSE /\ valid' = validate_wav(fs[File(validate_wav_arg)], wav_format)
            /\ pc' = Continue("validate_wav")
            /\ UNCHANGED error
    /\ UNCHANGED <<pargs, voices, fs, fs0, wav_format, workflow, speech,
                   isSpeaking, sound>>

Next ==
    \/ Main
    \/ TextToSpeech
    \/ SpeechEnds
    \/ PollSpeaking
    \/ SpeechDone
    \/ ConvertToWav
    \/ RemoveFile
    \/ ValidateWav

Spec == Init /\ [][Next]_vars

\* the scheduling of the program: a statement that can run does run; the
\* synthesizer (SpeechEnds) is outside the program and promises nothing
FairSpec ==
    /\ Spec
    /\ WF_vars(Main)
    /\ WF_vars(TextToSpeech)
    /\ WF_vars(PollSpeaking)
    /\ WF_vars(SpeechDone)
    /\ WF_vars(ConvertToWav)
    /\ WF_vars(RemoveFile)
    /\ WF_vars(ValidateWav)

----------------------------------------------------------------------------
(* validate_wav as a function of the file and of the format dictionary:   *)
(* main() -i in.wav -v, with the file and wav_format drawn from sets      *)

Formats ==
    [max_length : {9, 10}, sampling_rate : {8, 16}, bit_rate : {8, 16},
     channel : {1, 2}, modulation : {"PCM"}]

ValidateInit ==
    /\ voices = AllVoices
    /\ pargs = [text |-> "", input |-> <<"in.wav">>, convert |-> FALSE,
                validate |-> TRUE, output |-> ".", gain |-> 100,
                rate |-> RATE, narrator |-> NARRATOR]
    /\ fs \in {[NoFiles EXCEPT ![File(pargs.input)] = c] : c \in Audio}
    /\ wav_format \in Formats
    /\ Start

ValidateNext == Main \/ ValidateWav

ValidateSpec == ValidateInit /\ [][ValidateNext]_vars

----------------------------------------------------------------------------
(* Properties *)

Terminated == pc \in {"return", "raise"}

Ops == [i \in DOMAIN trace |-> trace[i].op]

\* the file the last validate_wav call looked at
Validated == fs[File(validate_wav_arg)]

\* the file convert_to_wav wrote
Converted == fs[File(convert_to_wav_args.output_file)]

\* C1: in generate_wav, once the synthesizer has been created, the program
\* never ends with the temporary file the synthesizer wrote still there,
\* whether it ends by returning or by an exception
C1_TempRemovedAtEnd ==
    (workflow = "generate_wav" /\ Terminated /\ speech # None)
        => fs[File(speech.url)] = NoFile

\* C2 as written: whatever the input, once convert_to_wav has written its
\* output, validate_wav of that output under the default format returns True
C2_RoundTrip ==
    sound # None => validate_wav(Converted, WAV_FORMAT).ok

\* the input convert_to_wav read is no longer than the format's max_length
InputWithinLength ==
    sound.frames <= WAV_FORMAT.max_length * sound.frame_rate

\* C2 amended: for an input no longer than max_length, once convert_to_wav
\* has written its output, validate_wav of that output under the default
\* format returns True, and the validate_wav call of generate_wav returned True
C2_RoundTripWithinLength ==
    (sound # None /\ InputWithinLength)
        => /\ validate_wav(Converted, WAV_FORMAT).ok
           /\ (workflow = "generate_wav" /\ valid # None) => valid.ok

\* generate_wav ran to its end on 10 s of 44.1 kHz stereo speech and the
\* output was validated
C2_Witness ==
    /\ workflow = "generate_wav"
    /\ pc = "return"
    /\ sound # None
    /\ sound.frame_rate = 44100
    /\ sound.channels = 2
    /\ sound.frames = 441000
    /\ valid # None
    /\ valid.ok

\* the format's fields in the units of the header: kHz to Hz, bits to bytes
ProfileRateHz(format) == format.sampling_rate * 1000

ProfileWidthBytes(format) == <<format.bit_rate, 8>>

Encoding(file) == IF file.comptype = "NONE" THEN "PCM" ELSE "Not PCM"

DurationComplies(file, format) ==
    file.frames <= format.max_length * file.frame_rate

Complies(file, format) ==
    /\ DurationComplies(file, format)
    /\ file.frame_rate = ProfileRateHz(format)
    /\ RatEq(file.sample_width, ProfileWidthBytes(format))
    /\ file.channels = format.channel
    /\ Encoding(file) = format.modulation

\* C3: for every file and every format, validate_wav returns True iff the
\* duration is at most max_length, the frame rate is the format's sampling
\* rate, the sample width is the format's bit depth, the channel count is the
\* format's and the encoding is the format's
C3_ValidIffAllComply ==
    valid # None => (valid.ok <=> Complies(Validated, wav_format))

\* the field a printed message names
FieldNamed(message) ==
    CASE message = "File is too long" -> "duration"
      [] message = "File has wrong bit rate" -> "bit depth"
      [] message = "File has wrong sampling rate" -> "sample rate"
      [] message = "File has wrong channel count" -> "channels"
      [] message = "File has wrong modulation type" -> "encoding"
      [] OTHER -> "none"

\* the first field that fails, in the order duration, sample rate, bit depth,
\* channels, encoding, with that field's own actual and expected values
FirstViolation(file, format) ==
    IF ~DurationComplies(file, format)
    THEN [field |-> "duration", actual |-> <<file.frames, file.frame_rate>>,
          expected |-> <<format.max_length, 1>>]
    ELSE IF file.frame_rate # ProfileRateHz(format)
    THEN [field |-> "sample rate", actual |-> <<file.frame_rate, 1>>,
          expected |-> <<ProfileRateHz(format), 1>>]
    ELSE IF ~RatEq(file.sample_width, ProfileWidthBytes(format))
    THEN [field |-> "bit depth", actual |-> <<file.sample_width, 1>>,
          expected |-> ProfileWidthBytes(format)]
    ELSE IF file.channels # format.channel
    THEN [field |-> "channels", actual |-> <<file.channels, 1>>,
          expected |-> <<format.channel, 1>>]
    ELSE [field |-> "encoding", actual |-> Encoding(file),
          expected |-> format.modulation]

\* C4: when a file does not comply, validate_wav returns False and reports
\* the first failing field in the order duration, sample rate, bit depth,
\* channels, encoding, with that field's own expected and actual values
C4_FirstViolationReported ==
    (valid # None /\ ~Complies(Validated, wav_format))
        => LET v == FirstViolation(Validated, wav_format) IN
           /\ ~valid.ok
           /\ FieldNamed(valid.message) = v.field
           /\ valid.actual = v.actual
           /\ valid.expected = v.expected

\* C5: a validate_wav call that returned False never ends in the outcome of
\* a successful run, which is main() returning normally
C5_FailureCarried ==
    (valid # None /\ ~valid.ok) => pc # "return"

\* C6: in generate_wav the path the synthesizer writes, the path
\* convert_to_wav reads and the path remove_file deletes all name the file
\* temp_speech.aiff inside the caller's output directory
C6_OneTempFileInOutputDir ==
    workflow = "generate_wav" =>
        \A i \in DOMAIN trace :
            trace[i].op \in {"text_to_speech", "convert_to_wav", "remove_file"}
                => File(trace[i].path) = <<pargs.output, temp_speech[1]>>

\* C7: when main() has run convert_to_wav on the caller's input, the input
\* file holds what it held when the program started
C7_InputUnchanged ==
    (workflow = "convert_to_wav" /\ pc = "return")
        => fs[File(pargs.input)] = fs0[File(pargs.input)]

\* C8: the program always comes to an end, by returning or by an
\* exception, also when the synthesizer never stops speaking
C8_Terminates == <>Terminated

\* C9 as written: a generate_wav run that returns made its calls in the
\* order text_to_speech, convert_to_wav, validate_wav, remove_file
C9_ValidateBeforeCleanup ==
    (workflow = "generate_wav" /\ pc = "return")
        => Ops = <<"text_to_speech", "convert_to_wav", "validate_wav", "remove_file">>

\* C9 amended: a generate_wav run that returns made its calls in the order
\* text_to_speech, convert_to_wav, remove_file, validate_wav: the temporary
\* file is removed before the output is validated
C9_CleanupBeforeValidate ==
    (workflow = "generate_wav" /\ pc = "return")
        => Ops = <<"text_to_speech", "convert_to_wav", "remove_file", "validate_wav">>

\* generate_wav returned with the output validated
C9_Witness ==
    /\ workflow = "generate_wav"
    /\ pc = "return"
    /\ valid # None
    /\ fs[File(remove_file_arg)] = NoFile

\* C10: the synthesizer generate_wav creates has the caller's narrator as
\* its voice, the caller's rate as its rate and the caller's gain as its volume
C10_CallerArgumentsUsed ==
    speech # None
        => /\ speech.voice = pargs.narrator
           /\ speech.rate = pargs.rate
           /\ speech.volume = pargs.gain

====
